---- MODULE Spec2Model ----
(***************************************************************************)
(* CICLA bike comfort map (sketch.js): a MapAgent that rewrites the        *)
(* comfort grid every frame and Cyclist agents that climb its gradient.    *)
(*                                                                         *)
(* Numbers.  The sketch computes in floating point; the model computes in  *)
(* fixed point:                                                            *)
(*   - positions and velocities in hundredths of a pixel (PX per pixel),   *)
(*   - comfort, temperature, rain, eco and noise values in thousandths     *)
(*     (ONE is 1.0),                                                       *)
(*   - the distances of the field synthesis in tenths of a pixel (DECI),   *)
(*   - the stored gradient in units of 1e-5 comfort per pixel.             *)
(* Divisions round toward zero.  sin, cos and exp are replaced by          *)
(* fixed-point series that keep their ranges ([-1,1], [-1,1], (0,1]).      *)
(***************************************************************************)
EXTENDS Integers, Sequences, FiniteSets, TLC

VARIABLES
    weather,        \* global `weather`
    ecoPods,        \* global `ecoPods`: sequence of [x, y] in PX units
    noiseSeed,      \* the seed p5's noise() was started with
    frameCount,     \* p5's frameCount
    perception,     \* mapAgent.perception.weather
    mode,           \* mapAgent.mode
    comfortMap,     \* comfortMap[i][j], i in 0..cols-1, j in 0..rows-1
    written,        \* history: for each cell, the frame and mode of its last write
    cyclists,       \* cyclists[k]: x, y, vel, trail, perceivedGradient, localComfort
    hist,           \* history: hist[k] = positions pushed by cyclists[k] since its last respawn
    pc              \* position in draw(): [k |-> cyclist index or 0, phase |-> ...]

vars == <<weather, ecoPods, noiseSeed, frameCount, perception, mode,
          comfortMap, written, cyclists, hist, pc>>

---------------------------------------------------------------------------
(* Program constants *)
width == 600
height == 900
trailCap == 80
eps == 10
margin == 40
maxSpeed == 2
farAway == 9999

(* Fixed-point scales *)
PX == 10 * 10
ONE == 10 * 10 * 10
DECI == 5 * 2

(* Bounds of the model *)
cols == 6
rows == 9
numCyclists == 2
MaxFrame == 2
LongFrames == 82

Modes == {"sunny", "rain", "heat"}
NoiseSeeds == {0, 1}
Cyclists == 1..numCyclists
Undefined == 0 - 1

W == width * PX
H == height * PX

---------------------------------------------------------------------------
(* Arithmetic helpers *)
\* division rounding toward zero
Div(a, b) == IF a >= 0 THEN a \div b ELSE 0 - ((0 - a) \div b)

\* p5 constrain(n, low, high)
constrain(n, low, high) == IF n < low THEN low ELSE IF n > high THEN high ELSE n

RECURSIVE Newton(_, _)
Newton(v, g) ==
    LET h == (g + v \div g) \div 2
    IN IF h >= g THEN g ELSE Newton(v, h)

\* floor of the square root
ISqrt(v) == IF v <= 0 THEN 0 ELSE Newton(v, IF v > 40000 THEN v \div 200 + 100 ELSE v)

\* p5 dist(x1, y1, x2, y2)
dist(x1, y1, x2, y2) == ISqrt((x1 - x2) * (x1 - x2) + (y1 - y2) * (y1 - y2))

\* squared magnitude of a vector
MagSq(v) == v[1] * v[1] + v[2] * v[2]

\* p5.Vector.mag(), rounded up
mag(v) == LET r == ISqrt(MagSq(v)) IN IF r * r = MagSq(v) THEN r ELSE r + 1

\* p5.Vector.normalize(): the unit vector at scale ONE; the zero vector stays zero
normalize(v) ==
    LET m == mag(v)
    IN IF m = 0 THEN <<0, 0>> ELSE <<Div(v[1] * ONE, m), Div(v[2] * ONE, m)>>

\* sin(a), a and the result at scale 10000 (series, for 0 <= a <= pi/2)
sin(a) ==
    LET a2 == (a * a) \div 10000
        a3 == (a2 * a) \div 10000
        a5 == (((a3 * a) \div 10000) * a) \div 10000
    IN constrain(a - a3 \div 6 + a5 \div 120, 0 - 10000, 10000)

\* cos(a), a and the result at scale 10000 (series, for 0 <= a <= pi/2)
cos(a) ==
    LET a2 == (a * a) \div 10000
        a4 == (a2 * a2) \div 10000
    IN constrain(10000 - a2 \div 2 + a4 \div 24, 0 - 10000, 10000)

\* exp(-u) for u >= 0, u and the result at scale ONE: 1 / (1 + u + u^2/2 + u^3/6)
expNeg(u) ==
    LET u2 == (u * u) \div ONE
        u3 == ((u2 \div 6) * u) \div ONE
    IN (ONE * ONE) \div (ONE + u + u2 \div 2 + u3)

---------------------------------------------------------------------------
(* setup(): the eco-pod stations *)
setupEcoPods ==
    << [x |-> (W * 3) \div 10,   y |-> (H * 25) \div 100],
       [x |-> (W * 65) \div 100, y |-> (H * 35) \div 100],
       [x |-> (W * 4) \div 10,   y |-> (H * 6) \div 10],
       [x |-> (W * 7) \div 10,   y |-> (H * 8) \div 10] >>

\* noise(i * 0.08, j * 0.08): a fixed field in [0, 1] that depends on the seed
noise(seed, i, j) == (((i * 3 + j * 5 + seed * 4) % 8) * ONE) \div 7

\* map(j, 0, rows - 1, 1, 0)
tempAt(j) == ONE - (j * ONE) \div (rows - 1)

\* the rain cloud centre of frame f, in DECI units
rainCx(f) == (width * DECI * (5000 + Div(3 * sin(70 * f), 10))) \div 10000
rainCy(f) == (height * DECI * (5000 + Div(2 * cos(40 * f), 10))) \div 10000
rainRadius == (width * DECI * 45) \div 100

\* rain intensity at (x, y) (DECI units) in frame f
rainAt(f, x, y) ==
    LET dRain == dist(x, y, rainCx(f), rainCy(f))
        q == (dRain * ONE) \div rainRadius
    IN expNeg((q * q) \div ONE)

\* the loop over ecoPods that keeps the smallest distance (DECI units)
RECURSIVE minPodFrom(_, _, _, _, _)
minPodFrom(pods, n, x, y, minPod) ==
    IF n > Len(pods) THEN minPod
    ELSE LET dp == dist(x, y, pods[n].x \div DECI, pods[n].y \div DECI)
         IN minPodFrom(pods, n + 1, x, y, IF dp < minPod THEN dp ELSE minPod)

\* map(minPod, 0, width * 0.4, 1, 0), before it is constrained
ecoAt(pods, x, y) ==
    LET minPod == minPodFrom(pods, 1, x, y, farAway * DECI)
    IN ONE - Div(minPod * ONE, 4 * width)

\* mutant of blendWeights: the heat row with 0.50 for 0.55
blendWeightsDrift(m) ==
    IF m = "sunny" THEN <<35, 35, 20, 10>>
    ELSE IF m = "rain" THEN <<15, 45, 30, 10>>
    ELSE <<50, 20, 15, 10>>

\* the weights of (1 - temp), eco, (1 - rain), base, in hundredths
blendWeights(m) ==
    IF m = "sunny" THEN <<35, 35, 20, 10>>
    ELSE IF m = "rain" THEN <<15, 45, 30, 10>>
    ELSE <<55, 20, 15, 10>>

\* the weighted sum of the four terms
blend(m, temp, eco, rain, base) ==
    LET w == blendWeights(m)
    IN Div(w[1] * (ONE - temp) + w[2] * eco + w[3] * (ONE - rain) + w[4] * base, 100)

\* mutant of cellComfort: the hue h = map(comfort, 0, 1, 0, 210) is stored, not the comfort
cellComfortHue(m, f, seed, pods, i, j) ==
    LET x == ((2 * i + 1) * width * DECI) \div (2 * cols)
        y == ((2 * j + 1) * height * DECI) \div (2 * rows)
        eco == constrain(ecoAt(pods, x, y), 0, ONE)
        comfort == blend(m, tempAt(j), eco, rainAt(f, x, y), noise(seed, i, j))
    IN 210 * constrain(comfort, 0, ONE)

\* the body of MapAgent.act's double loop for cell (i, j)
cellComfort(m, f, seed, pods, i, j) ==
    LET x == ((2 * i + 1) * width * DECI) \div (2 * cols)
        y == ((2 * j + 1) * height * DECI) \div (2 * rows)
        eco == constrain(ecoAt(pods, x, y), 0, ONE)
        comfort == blend(m, tempAt(j), eco, rainAt(f, x, y), noise(seed, i, j))
    IN constrain(comfort, 0, ONE)

---------------------------------------------------------------------------
(* Cyclist *)

\* random(ecoPods), random(TWO_PI), random(10, 60), random(-1, 1): the values a
\* respawn draws.  dir is (cos(angle), sin(angle)) in fifths, radius in PX units
\* (random(10, 60) is below 60), vel in PX units (random(-1, 1) is below 1).
SpawnDraws ==
    { [pod |-> 2, dir |-> <<0 - 5, 0>>, radius |-> 60 * PX - 5, vel |-> <<PX - 1, PX - 1>>],
      [pod |-> 3, dir |-> <<0, 0 - 5>>, radius |-> 35 * PX, vel |-> <<0, 0>>] }


\* createVector(random(-0.5, 0.5), random(-0.5, 0.5)) at scale ONE
WanderDraws == { <<499, 0 - 500>> }

\* new Cyclist() before its respawn(): only the trail is set
newCyclist ==
    [x |-> Undefined, y |-> Undefined, vel |-> <<0, 0>>, trail |-> <<>>,
     perceivedGradient |-> <<0, 0>>, localComfort |-> Undefined]

\* mutant of respawn: cos(angle) used for y as well
respawnCosTwice(c, pods, d) ==
    [c EXCEPT !.x = pods[d.pod].x + Div(d.dir[1] * d.radius, 5),
              !.y = pods[d.pod].y + Div(d.dir[1] * d.radius, 5),
              !.vel = d.vel,
              !.trail = <<>>]

\* Cyclist.respawn() with the drawn values d
respawn(c, pods, d) ==
    [c EXCEPT !.x = pods[d.pod].x + Div(d.dir[1] * d.radius, 5),
              !.y = pods[d.pod].y + Div(d.dir[2] * d.radius, 5),
              !.vel = d.vel,
              !.trail = <<>>]

\* mutant of comfortAt: the right and bottom edges tested with > in place of >=
comfortAtInclusive(map, x, y) ==
    IF x < 0 \/ x > W \/ y < 0 \/ y > H THEN 0
    ELSE LET i == constrain((x * cols) \div W, 0, cols - 1)
             j == constrain((y * rows) \div H, 0, rows - 1)
         IN map[i][j]

\* comfortAt(x, y), x and y in PX units
comfortAt(map, x, y) ==
    IF x < 0 \/ x >= W \/ y < 0 \/ y >= H THEN 0
    ELSE LET i == constrain((x * cols) \div W, 0, cols - 1)
             j == constrain((y * rows) \div H, 0, rows - 1)
         IN map[i][j]

\* Cyclist.perceive(); the gradient is kept in units of 1e-5 per pixel
perceive(c, map) ==
    LET e == eps * PX
        cCenter == comfortAt(map, c.x, c.y)
        cRight == comfortAt(map, c.x + e, c.y)
        cLeft == comfortAt(map, c.x - e, c.y)
        cUp == comfortAt(map, c.x, c.y - e)
        cDown == comfortAt(map, c.x, c.y + e)
        gradX == Div((cRight - cLeft) * 100, 2 * eps)
        gradY == Div((cDown - cUp) * 100, 2 * eps)
    IN [c EXCEPT !.perceivedGradient = <<gradX, gradY>>, !.localComfort = cCenter]

\* g.mag() < 0.0005 on the stored gradient (0.0005 is 50 in its units)
isFlat(g) == MagSq(g) < 50 * 50

\* mutant of limit: the speed limit left out
limitOff(v) == v

\* the speed limit of Cyclist.decide()
limit(v) ==
    IF MagSq(v) > (maxSpeed * PX) * (maxSpeed * PX)
    THEN LET n == normalize(v)
         IN <<Div(n[1] * maxSpeed * PX, ONE), Div(n[2] * maxSpeed * PX, ONE)>>
    ELSE v

\* Cyclist.decide() with the drawn wander vector w
decide(c, w) ==
    LET g == normalize(IF isFlat(c.perceivedGradient) THEN w ELSE c.perceivedGradient)
        v == << Div(c.vel[1] * 75, 100) + Div(g[1] * 25 * PX, 100 * ONE),
                Div(c.vel[2] * 75, 100) + Div(g[2] * 25 * PX, 100 * ONE) >>
    IN [c EXCEPT !.vel = limit(v)]

\* mutant of pushTrail: pop() in place of shift(), the newest entry is dropped
pushTrailPop(trail, p) ==
    LET t == Append(trail, p)
    IN IF Len(t) > trailCap THEN SubSeq(t, 1, trailCap) ELSE t

\* this.trail.push(...); if (this.trail.length > 80) this.trail.shift()
pushTrail(trail, p) ==
    LET t == Append(trail, p)
    IN IF Len(t) > trailCap THEN Tail(t) ELSE t

\* mutant of mustRespawn: the margins tested with <= and >=
mustRespawnInclusive(c) ==
    \/ c.x <= 0 - margin * PX
    \/ c.x >= W + margin * PX
    \/ c.y <= 0 - margin * PX
    \/ c.y >= H + margin * PX
    \/ (c.localComfort # Undefined /\ c.localComfort < (18 * ONE) \div 100)

\* the respawn condition of Cyclist.act()
mustRespawn(c) ==
    \/ c.x < 0 - margin * PX
    \/ c.x > W + margin * PX
    \/ c.y < 0 - margin * PX
    \/ c.y > H + margin * PX
    \/ (c.localComfort # Undefined /\ c.localComfort < (18 * ONE) \div 100)

\* mutant of moved: the position pushed on the trail before the move
movedPushFirst(c) ==
    [c EXCEPT !.x = c.x + c.vel[1], !.y = c.y + c.vel[2],
              !.trail = pushTrail(c.trail, <<c.x, c.y>>)]

\* the move and the trail update of Cyclist.act()
moved(c) ==
    LET nx == c.x + c.vel[1]
        ny == c.y + c.vel[2]
    IN [c EXCEPT !.x = nx, !.y = ny, !.trail = pushTrail(c.trail, <<nx, ny>>)]

\* Cyclist.act() with the values d a respawn would draw
act(c, pods, d) ==
    IF mustRespawn(moved(c)) THEN respawn(moved(c), pods, d) ELSE moved(c)

---------------------------------------------------------------------------
(* The sketch: setup(), keyPressed(), and draw() step by step *)

Idle == [k |-> 0, phase |-> "idle"]

\* the state after setup()
Init ==
    /\ weather = "sunny"
    /\ ecoPods = setupEcoPods
    /\ noiseSeed \in NoiseSeeds
    /\ frameCount = 0
    /\ perception = Undefined
    /\ mode = "sunny"
    /\ comfortMap = [i \in 0..cols - 1 |-> [j \in 0..rows - 1 |-> 0]]
    /\ written = [i \in 0..cols - 1 |-> [j \in 0..rows - 1 |-> [frame |-> 0, mode |-> "none"]]]
    /\ \E d \in [Cyclists -> SpawnDraws] :
          cyclists = [k \in Cyclists |-> respawn(newCyclist, setupEcoPods, d[k])]
    /\ hist = [k \in Cyclists |-> <<>>]
    /\ pc = Idle

\* keyPressed(): dispatched between two frames
keyPressed ==
    /\ pc = Idle
    /\ \E key \in {"1", "2", "3", "x"} :
          weather' = IF key = "1" THEN "sunny"
                     ELSE IF key = "2" THEN "rain"
                     ELSE IF key = "3" THEN "heat"
                     ELSE weather
    /\ UNCHANGED <<ecoPods, noiseSeed, frameCount, perception, mode,
                   comfortMap, written, cyclists, hist, pc>>

\* p5 starts a frame: frameCount is advanced and draw() is entered
draw(frames) ==
    /\ pc = Idle
    /\ frameCount < frames
    /\ frameCount' = frameCount + 1
    /\ pc' = [k |-> 0, phase |-> "map.perceive"]
    /\ UNCHANGED <<weather, ecoPods, noiseSeed, perception, mode,
                   comfortMap, written, cyclists, hist>>

MapAgentPerceive ==
    /\ pc = [k |-> 0, phase |-> "map.perceive"]
    /\ perception' = weather
    /\ pc' = [k |-> 0, phase |-> "map.decide"]
    /\ UNCHANGED <<weather, ecoPods, noiseSeed, frameCount, mode,
                   comfortMap, written, cyclists, hist>>

MapAgentDecide ==
    /\ pc = [k |-> 0, phase |-> "map.decide"]
    /\ mode' = perception
    /\ pc' = [k |-> 0, phase |-> "map.act"]
    /\ UNCHANGED <<weather, ecoPods, noiseSeed, frameCount, perception,
                   comfortMap, written, cyclists, hist>>

\* mutant of actCells: the outer loop started at i = 1
actCellsFromOne == (1..cols - 1) \X (0..rows - 1)

\* the cells MapAgent.act() writes
actCells == (0..cols - 1) \X (0..rows - 1)

MapAgentAct ==
    /\ pc = [k |-> 0, phase |-> "map.act"]
    /\ comfortMap' = [i \in 0..cols - 1 |-> [j \in 0..rows - 1 |->
          IF <<i, j>> \in actCells
          THEN cellComfort(mode, frameCount, noiseSeed, ecoPods, i, j)
          ELSE comfortMap[i][j]]]
    /\ written' = [i \in 0..cols - 1 |-> [j \in 0..rows - 1 |->
          IF <<i, j>> \in actCells
          THEN [frame |-> frameCount, mode |-> mode]
          ELSE written[i][j]]]
    /\ pc' = [k |-> 1, phase |-> "perceive"]
    /\ UNCHANGED <<weather, ecoPods, noiseSeed, frameCount, perception, mode,
                   cyclists, hist>>

\* mutant of CyclistPerceive: perceivedGradient and localComfort kept in globals, not in this
CyclistPerceiveGlobals ==
    /\ pc.phase = "perceive"
    /\ cyclists' = [k \in Cyclists |->
          [cyclists[k] EXCEPT
              !.perceivedGradient = perceive(cyclists[pc.k], comfortMap).perceivedGradient,
              !.localComfort = perceive(cyclists[pc.k], comfortMap).localComfort]]
    /\ pc' = [pc EXCEPT !.phase = "decide"]
    /\ UNCHANGED <<weather, ecoPods, noiseSeed, frameCount, perception, mode,
                   comfortMap, written, hist>>

CyclistPerceive ==
    /\ pc.phase = "perceive"
    /\ cyclists' = [cyclists EXCEPT ![pc.k] = perceive(@, comfortMap)]
    /\ pc' = [pc EXCEPT !.phase = "decide"]
    /\ UNCHANGED <<weather, ecoPods, noiseSeed, frameCount, perception, mode,
                   comfortMap, written, hist>>

CyclistDecide(wanders) ==
    /\ pc.phase = "decide"
    /\ \E w \in (IF isFlat(cyclists[pc.k].perceivedGradient) THEN wanders ELSE {<<0, 0>>}) :
          cyclists' = [cyclists EXCEPT ![pc.k] = decide(@, w)]
    /\ pc' = [pc EXCEPT !.phase = "act"]
    /\ UNCHANGED <<weather, ecoPods, noiseSeed, frameCount, perception, mode,
                   comfortMap, written, hist>>

CyclistAct(spawns) ==
    /\ pc.phase = "act"
    /\ LET c == cyclists[pc.k]
           respawns == mustRespawn(moved(c))
       IN /\ \E d \in (IF respawns THEN spawns ELSE {CHOOSE s \in spawns : TRUE}) :
                cyclists' = [cyclists EXCEPT ![pc.k] = act(c, ecoPods, d)]
          /\ hist' = [hist EXCEPT ![pc.k] =
                IF respawns THEN <<>> ELSE Append(@, <<moved(c).x, moved(c).y>>)]
    /\ pc' = IF pc.k < numCyclists THEN [k |-> pc.k + 1, phase |-> "perceive"] ELSE Idle
    /\ UNCHANGED <<weather, ecoPods, noiseSeed, frameCount, perception, mode,
                   comfortMap, written>>

Next ==
    \/ keyPressed
    \/ draw(MaxFrame)
    \/ MapAgentPerceive
    \/ MapAgentDecide
    \/ MapAgentAct
    \/ CyclistPerceive
    \/ CyclistDecide(WanderDraws)
    \/ CyclistAct(SpawnDraws)

Spec == Init /\ [][Next]_vars

---------------------------------------------------------------------------
(* The sketch without keyboard input, run for LongFrames frames: long enough   *)
(* for a trail to fill.                                                       *)

InitLong == Init /\ noiseSeed = 0

NextLong ==
    \/ draw(LongFrames)
    \/ MapAgentPerceive
    \/ MapAgentDecide
    \/ MapAgentAct
    \/ CyclistPerceive
    \/ CyclistDecide(WanderDraws)
    \/ CyclistAct(SpawnDraws)

SpecLong == InitLong /\ [][NextLong]_vars

---------------------------------------------------------------------------
(* Unit harness.  Frame 1 is entered with the last cyclist in a state drawn    *)
(* from the whole range of its fields (positions on, inside and beyond every  *)
(* edge and margin, old velocities beyond the speed limit, every gradient and *)
(* comfort class), at one of three points: before MapAgent.perceive() (the    *)
(* whole frame runs), before its own decide(), or before its own act().       *)

AllModes == Modes \cup {"fog"}

UnitWanderDraws == { <<499, 0 - 500>>, <<0, 0>>, <<0 - 500, 0>>, <<0 - 500, 499>> }

UnitSpawnCombos ==
    { <<<<5, 0>>, 10 * PX, <<0 - PX, 0 - PX>>>>,
      <<<<3, 4>>, 60 * PX - 5, <<PX - 1, PX - 1>>>>,
      <<<<0, 5>>, 35 * PX, <<0, 0>>>>,
      <<<<0 - 4, 3>>, 10 * PX, <<PX - 1, 0 - PX>>>>,
      <<<<0 - 5, 0>>, 60 * PX - 5, <<0 - PX, PX - 1>>>>,
      <<<<0 - 3, 0 - 4>>, 35 * PX, <<PX - 1, PX - 1>>>>,
      <<<<0, 0 - 5>>, 60 * PX - 5, <<0 - PX, 0 - PX>>>>,
      <<<<4, 0 - 3>>, 10 * PX, <<0, PX - 1>>>> }
UnitSpawnDraws ==
    { [pod |-> n, dir |-> c[1], radius |-> c[2], vel |-> c[3]] : n \in 1..4, c \in UnitSpawnCombos }

\* positions for perceive(): around the edges of the playfield
EdgeXs == { 0 - eps * PX - 1, 0 - 1, 0, eps * PX - 1, W \div 2, W - eps * PX, W - 1, W, W + eps * PX }
EdgeYs == { 0 - 1, 0, H \div 2, H - 1, H }
\* positions after the move of act(): around the respawn margins
MarginXs == { 0 - margin * PX - 1, 0 - margin * PX, W \div 2, W + margin * PX, W + margin * PX + 1 }
MarginYs == { 0 - margin * PX - 1, 0 - margin * PX, H \div 2, H + margin * PX, H + margin * PX + 1 }
ComfortDraws == { 0, (18 * ONE) \div 100 - 1, (18 * ONE) \div 100, ONE }
\* old velocities for decide(): at rest, at the limit, beyond it
OldVels == { <<0, 0>>, <<maxSpeed * PX, 0>>, <<0 - 142, 141>>, <<0 - 3 * PX, 0>>,
             <<10 * PX, 0 - 10 * PX>>, <<142, 143>> }
\* perceived gradients for decide(): flat (zero, just under 0.0005), at 0.0005, steep
GradientDraws == { <<0, 0>>, <<49, 0>>, <<30, 0 - 40>>, <<0 - 5000, 5000>>, <<0, 2500>> }

probe(x, y, v, g, c) ==
    [x |-> x, y |-> y, vel |-> v, trail |-> <<>>, perceivedGradient |-> g, localComfort |-> c]

UnitOther == [pod |-> 3, dir |-> <<0, 0 - 5>>, radius |-> 35 * PX, vel |-> <<0, 0>>]

UnitCyclists(p) ==
    [k \in Cyclists |-> IF k = numCyclists THEN p ELSE respawn(newCyclist, setupEcoPods, UnitOther)]

InitUnitCommon ==
    /\ ecoPods = setupEcoPods
    /\ frameCount = 1
    /\ perception = Undefined
    /\ mode = "sunny"
    /\ comfortMap = [i \in 0..cols - 1 |-> [j \in 0..rows - 1 |-> 0]]
    /\ written = [i \in 0..cols - 1 |-> [j \in 0..rows - 1 |-> [frame |-> 0, mode |-> "none"]]]
    /\ hist = [k \in Cyclists |-> <<>>]

\* the whole frame, the last cyclist placed around an edge
InitUnitFrame ==
    /\ InitUnitCommon
    /\ weather \in AllModes
    /\ noiseSeed \in NoiseSeeds
    /\ \E x \in EdgeXs, y \in EdgeYs :
          cyclists = UnitCyclists(probe(x, y, <<0, 0>>, <<0, 0>>, Undefined))
    /\ pc = [k |-> 0, phase |-> "map.perceive"]

\* decide() of the last cyclist, for every old velocity and gradient
InitUnitDecide ==
    /\ InitUnitCommon
    /\ weather = "sunny"
    /\ noiseSeed = 0
    /\ \E v \in OldVels, g \in GradientDraws :
          cyclists = UnitCyclists(probe(W \div 2, H \div 2, v, g, ONE))
    /\ pc = [k |-> numCyclists, phase |-> "decide"]

\* act() of the last cyclist, moving onto every margin position with every comfort
InitUnitAct ==
    /\ InitUnitCommon
    /\ weather = "sunny"
    /\ noiseSeed = 0
    /\ \E x \in MarginXs, y \in MarginYs, c \in ComfortDraws, v \in {<<0, 0>>, <<maxSpeed * PX, 0>>} :
          cyclists = UnitCyclists(probe(x - v[1], y - v[2], v, <<0, 0>>, c))
    /\ pc = [k |-> numCyclists, phase |-> "act"]

InitUnit == InitUnitFrame \/ InitUnitDecide \/ InitUnitAct

NextUnit ==
    \/ MapAgentPerceive
    \/ MapAgentDecide
    \/ MapAgentAct
    \/ CyclistPerceive
    \/ CyclistDecide(UnitWanderDraws)
    \/ CyclistAct(UnitSpawnDraws)

SpecUnit == InitUnit /\ [][NextUnit]_vars

---------------------------------------------------------------------------
(* Properties *)

speedLimitSq == (maxSpeed * PX) * (maxSpeed * PX)
lowComfort == (18 * ONE) \div 100

\* the last n entries of s
LastN(s, n) == IF Len(s) <= n THEN s ELSE SubSeq(s, Len(s) - n + 1, Len(s))

Outside(x, y) == x < 0 \/ x >= W \/ y < 0 \/ y >= H

\* the cell the spec assigns to an in-bounds position: floor(x / cellW), floor(y / cellH)
CellOf(x, y) == <<(x * cols) \div W, (y * rows) \div H>>

\* the value the spec assigns to a sample at (x, y)
Sample(x, y) == IF Outside(x, y) THEN 0 ELSE comfortMap[CellOf(x, y)[1]][CellOf(x, y)[2]]

\* c lies at a distance in [10, 60] of some eco-pod
NearPod(c) ==
    \E n \in 1..Len(ecoPods) :
        LET dx == c.x - ecoPods[n].x
            dy == c.y - ecoPods[n].y
        IN /\ dx >= 0 - 60 * PX /\ dx <= 60 * PX
           /\ dy >= 0 - 60 * PX /\ dy <= 60 * PX
           /\ dx * dx + dy * dy >= (10 * PX) * (10 * PX)
           /\ dx * dx + dy * dy <= (60 * PX) * (60 * PX)

\* c lies in the margin-extended rectangle
InMargins(c) ==
    /\ c.x >= 0 - margin * PX /\ c.x <= W + margin * PX
    /\ c.y >= 0 - margin * PX /\ c.y <= H + margin * PX

\* C1: every trail holds at most 80 entries and is exactly the last 80 positions
\* its cyclist appended since its last respawn, in append order; so after 81
\* appends the first appended entry is gone and the oldest kept is the second.
C1_TrailFifo ==
    \A k \in Cyclists :
        /\ Len(cyclists[k].trail) <= trailCap
        /\ cyclists[k].trail = LastN(hist[k], trailCap)
        /\ (Len(hist[k]) > trailCap =>
               cyclists[k].trail[1] = hist[k][Len(hist[k]) - trailCap + 1])

C1_Witness ==
    \E k \in Cyclists :
        /\ Len(hist[k]) = trailCap + 1
        /\ Len(cyclists[k].trail) = trailCap
        /\ cyclists[k].trail[1] = hist[k][2]
        /\ cyclists[k].trail[1] # hist[k][1]

\* C2: every step that writes a velocity (decide, and the respawn of act) leaves
\* its magnitude at most 2.0, whatever the old velocity and the gradient were.
C2_VelocityCapped ==
    [][ (pc.phase = "decide" \/ (pc.phase = "act" /\ cyclists'[pc.k].trail = <<>>))
        => MagSq(cyclists'[pc.k].vel) <= speedLimitSq ]_vars

\* a flat field (gradient exactly 0), an old velocity of (10, -10), and the result at the limit
C2_Witness ==
    /\ pc = [k |-> numCyclists, phase |-> "act"]
    /\ cyclists[numCyclists].perceivedGradient = <<0, 0>>
    /\ hist[numCyclists] = <<>>
    /\ cyclists[numCyclists].localComfort = ONE
    /\ MagSq(cyclists[numCyclists].vel) > (maxSpeed * PX - 2) * (maxSpeed * PX - 2)
    /\ MagSq(cyclists[numCyclists].vel) <= speedLimitSq
    /\ cyclists[numCyclists].vel[2] < 0

\* C3: every cell of comfortMap is in [0, 1].
C3_ComfortInUnitInterval ==
    \A i \in 0..cols - 1 : \A j \in 0..rows - 1 :
        comfortMap[i][j] >= 0 /\ comfortMap[i][j] <= ONE

C3_Witness ==
    /\ frameCount = 2
    /\ mode = "heat"
    /\ pc.phase = "perceive"
    /\ \E i \in 0..cols - 1 : \E j \in 0..rows - 1 : comfortMap[i][j] > (8 * ONE) \div 10
    /\ \E i \in 0..cols - 1 : \E j \in 0..rows - 1 : comfortMap[i][j] < lowComfort

\* C4: perceive() stores the sample at the cyclist's position and the central
\* differences of the samples at the four offsets, where a sample outside the
\* playfield is 0 and a sample inside is the cell floor(x / cellW), floor(y / cellH),
\* which is a cell of the grid.
C4_ComfortAtTotal ==
    [][ pc.phase = "perceive" =>
          LET c == cyclists[pc.k]
              e == eps * PX
              pts == { <<c.x, c.y>>, <<c.x + e, c.y>>, <<c.x - e, c.y>>,
                       <<c.x, c.y - e>>, <<c.x, c.y + e>> }
          IN /\ \A q \in pts : Outside(q[1], q[2])
                    \/ (CellOf(q[1], q[2])[1] \in 0..cols - 1 /\ CellOf(q[1], q[2])[2] \in 0..rows - 1)
             /\ cyclists'[pc.k].localComfort = Sample(c.x, c.y)
             /\ cyclists'[pc.k].perceivedGradient =
                   << Div((Sample(c.x + e, c.y) - Sample(c.x - e, c.y)) * 100, 2 * eps),
                      Div((Sample(c.x, c.y + e) - Sample(c.x, c.y - e)) * 100, 2 * eps) >> ]_vars

\* a cyclist 10 units left of the right edge: its right sample lies on the edge and reads 0
C4_Witness ==
    /\ pc = [k |-> numCyclists, phase |-> "decide"]
    /\ written[0][0].frame = 1
    /\ cyclists[numCyclists].x = W - eps * PX
    /\ cyclists[numCyclists].y = H - 1
    /\ cyclists[numCyclists].localComfort > 0
    /\ cyclists[numCyclists].perceivedGradient[1] < 0
    /\ cyclists[numCyclists].perceivedGradient[2] < 0

C6_RespawnClearsCondition ==
    pc = Idle =>
        \A k \in Cyclists :
            hist[k] = <<>> =>
                /\ NearPod(cyclists[k])
                /\ InMargins(cyclists[k])
                /\ cyclists[k].trail = <<>>
                /\ ~ (cyclists[k].localComfort # Undefined /\ cyclists[k].localComfort < lowComfort)

\* C6 amended: after a respawn the cyclist is at a distance in [10, 60] of an
\* eco-pod, its trail is empty and it is within the margins; the stored
\* localComfort is not refreshed by the respawn.
C6_RespawnNearPod ==
    pc = Idle =>
        \A k \in Cyclists :
            hist[k] = <<>> =>
                /\ NearPod(cyclists[k])
                /\ InMargins(cyclists[k])
                /\ cyclists[k].trail = <<>>

\* a respawn triggered by low comfort alone: the stored comfort is still below 0.18
C6_Witness ==
    /\ pc = Idle
    /\ cyclists[numCyclists].trail = <<>>
    /\ cyclists[numCyclists].localComfort = lowComfort - 1
    /\ NearPod(cyclists[numCyclists])
    /\ cyclists[numCyclists].x = ecoPods[2].x + 3 * ((60 * PX - 5) \div 5)

\* C7: the weights MapAgent.act blends with are the row of the spec's table for
\* the mode (the Heat row for any mode but sunny and rain), and they sum to 1.
C7_BlendWeights ==
    LET w == blendWeights(mode)
        row == CASE mode = "sunny" -> <<35, 35, 20, 10>>
                 [] mode = "rain" -> <<15, 45, 30, 10>>
                 [] mode = "heat" -> <<55, 20, 15, 10>>
                 [] OTHER -> <<55, 20, 15, 10>>
    IN /\ w = row
       /\ w[1] + w[2] + w[3] + w[4] = 100
       /\ blend(mode, 0, ONE, 0, ONE) = ONE
       /\ blend(mode, ONE, 0, ONE, 0) = 0

C7_Witness ==
    /\ mode = "fog"
    /\ pc.phase = "perceive"
    /\ written[0][0] = [frame |-> 1, mode |-> "fog"]
    /\ blendWeights(mode) = blendWeights("heat")

\* C8: while the cyclists run, every cell of the grid was written in this frame
\* and under one mode, the weather the frame started with.
C8_GridFreshAndUniform ==
    pc.k >= 1 =>
        /\ mode = weather
        /\ \A i \in 0..cols - 1 : \A j \in 0..rows - 1 :
              written[i][j] = [frame |-> frameCount, mode |-> weather]

\* frame 2 runs under a mode that a key set after setup
C8_Witness ==
    /\ pc.k = numCyclists
    /\ pc.phase = "act"
    /\ frameCount = 2
    /\ weather = "rain"
    /\ written[cols - 1][rows - 1] = [frame |-> 2, mode |-> "rain"]

\* C9: a step of a cyclist (perceive, decide, act, with its respawn) changes
\* nothing but that cyclist.
C9_CyclistFrame ==
    [][ pc.k >= 1 =>
          /\ comfortMap' = comfortMap
          /\ ecoPods' = ecoPods
          /\ weather' = weather
          /\ mode' = mode
          /\ frameCount' = frameCount
          /\ \A j \in Cyclists : j # pc.k =>
                (cyclists'[j] = cyclists[j] /\ hist'[j] = hist[j]) ]_vars

\* the last cyclist has respawned in its act while the first keeps what its own frame left
C9_Witness ==
    /\ pc = Idle
    /\ written[0][0].frame = 1
    /\ cyclists[numCyclists].trail = <<>>
    /\ cyclists[numCyclists].localComfort = 0
    /\ Len(cyclists[1].trail) = 1
    /\ cyclists[1].localComfort > lowComfort

\* C10: at the end of a frame every cyclist is within the margins, and its trail
\* is empty or ends with its position.
C10_EndOfFrame ==
    pc = Idle =>
        \A k \in Cyclists :
            /\ InMargins(cyclists[k])
            /\ \/ cyclists[k].trail = <<>>
               \/ cyclists[k].trail[Len(cyclists[k].trail)] = <<cyclists[k].x, cyclists[k].y>>

\* a cyclist that stopped exactly on the top margin, and one with an empty trail
C10_Witness ==
    /\ pc = Idle
    /\ cyclists[numCyclists].y = 0 - margin * PX
    /\ cyclists[numCyclists].trail = << <<W \div 2, 0 - margin * PX>> >>
    /\ cyclists[1].trail = <<>>
    /\ NearPod(cyclists[1])

====
